---- MODULE Spec2Model ----
(***************************************************************************)
(* go-passwordgen, package generator (internal/generator/password.go).     *)
(*                                                                         *)
(* GeneratePassword is modelled as a state machine that stops at every     *)
(* call of secureRandomInt, whose outcome (an index or an error of the     *)
(* random source) is the only nondeterminism of the program.  Runes are    *)
(* their code points, strings are sequences of runes (every alphabet is    *)
(* ASCII, so bytes and runes coincide), Go's 0-based indices are kept and  *)
(* translated by At/Put.  Entropy is kept in micro-bits.                   *)
(***************************************************************************)
EXTENDS Integers, Sequences, FiniteSets, Bags, TLC

VARIABLES
    opt,           \* the PasswordOptions GeneratePassword was called with
    pc,            \* where GeneratePassword stands: "validate", "upper",
                   \* "lower", "numbers", "special", "fill", "shuffle",
                   \* "analyse", "done" (returned) or "panic"
    charsetRunes,  \* []rune(buildCharset(opt))
    passwords,     \* the result slice being filled
    i,             \* index of the iteration over passwords
    password,      \* the rune buffer of the current iteration
    position,      \* next free slot of the guaranteed-class blocks
    j,             \* index of the fill loop
    si,            \* index i of the loop of shuffle
    lastDraw,      \* (n, err) of the latest call of secureRandomInt
    draws,         \* history: calls of secureRandomInt made so far
    validations,   \* history: calls of validateOptions made so far
    built,         \* history: the buffer as it was handed to shuffle
    ret            \* the values returned: (passwords, err)

vars == <<opt, pc, charsetRunes, passwords, i, password, position, j, si,
          lastDraw, draws, validations, built, ret>>

\* ---------------------------------------------------------------- bounds
\* The requests explored have Length and Count from -1 to MaxRunes and ask
\* for at most MaxRunes runes in all (Length * Count <= MaxRunes).
MaxRunes == 4
\* secureRandomInt(max) is explored on every value of [0, max) when max is
\* at most MaxRunes (the draws of shuffle), and on the DrawSpread smallest
\* values and the largest value otherwise (the draws over alphabets).
DrawSpread == 1
\* The strings handed to PasswordEntropy on its own have up to MaxAnalysed
\* runes: any MaxFree runes of ProbeRunes, then repetitions of the last one.
MaxFree == 4
MaxAnalysed == 16

\* ------------------------------------------------------------- constants
Range(lo, hi) == [k \in 1..(hi - lo + 1) |-> lo + k - 1]

\* specialChars with one more symbol, '~'.
specialChars28 ==
    <<33, 64, 35, 36, 37, 94, 38, 42, 40, 41, 45, 95, 61, 43, 91, 93, 123,
      125, 124, 59, 58, 44, 46, 60, 62, 63, 47, 126>>

specialChars == <<33, 64, 35, 36, 37, 94, 38, 42, 40, 41, 45, 95, 61, 43,
                  91, 93, 123, 125, 124, 59, 58, 44, 46, 60, 62, 63, 47>>
numbers == Range(48, 57)
uppercase == Range(65, 90)
lowercase == Range(97, 122)

\* 0-based indexing of Go slices and strings.
At(s, k) == s[k + 1]
Put(s, k, v) == [s EXCEPT ![k + 1] = v]
Chars(s) == {s[k] : k \in 1..Len(s)}

NoError == "nil"
InvalidLengthError == "length is too short for the selected character sets"
InvalidCountError == "count must be greater than 0"
NoCharsetSelectedError == "at least one character set must be selected"
RandomSourceError == "failed to generate random number"
\* rand.Int panics when its bound is not positive.
Panic == "crypto/rand: argument to Int is <= 0"
EmptyPasswordError == "password is empty"
NoRecognizedCharactersError == "password contains no recognized character types"

ValidationErrors == {InvalidLengthError, InvalidCountError, NoCharsetSelectedError}

\* ------------------------------------------------------- validateOptions
BoolToInt(b) == IF b THEN 1 ELSE 0

minLength(o) ==
    BoolToInt(o.UseSpecialChars) + BoolToInt(o.UseNumbers)
        + BoolToInt(o.UseUpper) + BoolToInt(o.UseLower)

\* validateOptions without its last check.
validateOptionsNoCharsetCheck(o) ==
    IF o.Length < minLength(o) THEN InvalidLengthError
    ELSE IF o.Count < 1 THEN InvalidCountError
    ELSE NoError

\* validateOptions with "opt.Length <= minLength".
validateOptionsStrict(o) ==
    IF o.Length <= minLength(o) THEN InvalidLengthError
    ELSE IF o.Count < 1 THEN InvalidCountError
    ELSE IF ~o.UseUpper /\ ~o.UseLower /\ ~o.UseNumbers /\ ~o.UseSpecialChars
         THEN NoCharsetSelectedError
    ELSE NoError

\* validateOptions with "opt.Count < 0".
validateOptionsCountOff(o) ==
    IF o.Length < minLength(o) THEN InvalidLengthError
    ELSE IF o.Count < 0 THEN InvalidCountError
    ELSE IF ~o.UseUpper /\ ~o.UseLower /\ ~o.UseNumbers /\ ~o.UseSpecialChars
         THEN NoCharsetSelectedError
    ELSE NoError

\* validateOptions without its first check.
validateOptionsNoLengthCheck(o) ==
    IF o.Count < 1 THEN InvalidCountError
    ELSE IF ~o.UseUpper /\ ~o.UseLower /\ ~o.UseNumbers /\ ~o.UseSpecialChars
         THEN NoCharsetSelectedError
    ELSE NoError

validateOptions(o) ==
    IF o.Length < minLength(o) THEN InvalidLengthError
    ELSE IF o.Count < 1 THEN InvalidCountError
    ELSE IF ~o.UseUpper /\ ~o.UseLower /\ ~o.UseNumbers /\ ~o.UseSpecialChars
         THEN NoCharsetSelectedError
    ELSE NoError

\* ---------------------------------------------------------- buildCharset
\* buildCharset with the alphabets of the last two classes exchanged.
buildCharsetSwapped(o) ==
    (IF o.UseUpper THEN uppercase ELSE <<>>)
        \o (IF o.UseLower THEN lowercase ELSE <<>>)
        \o (IF o.UseNumbers THEN specialChars ELSE <<>>)
        \o (IF o.UseSpecialChars THEN numbers ELSE <<>>)

buildCharset(o) ==
    (IF o.UseUpper THEN uppercase ELSE <<>>)
        \o (IF o.UseLower THEN lowercase ELSE <<>>)
        \o (IF o.UseNumbers THEN numbers ELSE <<>>)
        \o (IF o.UseSpecialChars THEN specialChars ELSE <<>>)

\* ------------------------------------------------------- secureRandomInt
\* The outcomes of one call: an index of [0, max) with no error, or 0 with
\* the random source's error.
Samples(max) ==
    {n \in 0..(max - 1) :
        max <= MaxRunes \/ n < DrawSpread \/ n = max - 1}

secureRandomInt(max) ==
    IF max <= 0
    THEN {[n |-> 0, err |-> Panic]}
    ELSE {[n |-> k, err |-> NoError] : k \in Samples(max)}
             \cup {[n |-> 0, err |-> RandomSourceError]}

\* ------------------------------------------------------- PasswordEntropy
\* floor(log2(n) * 10^6) for n = 1..90.
Log2Micro ==
    <<0, 1000000, 1584962, 2000000, 2321928, 2584962, 2807354, 3000000,
      3169925, 3321928, 3459431, 3584962, 3700439, 3807354, 3906890, 4000000,
      4087462, 4169925, 4247927, 4321928, 4392317, 4459431, 4523561, 4584962,
      4643856, 4700439, 4754887, 4807354, 4857980, 4906890, 4954196, 5000000,
      5044394, 5087462, 5129283, 5169925, 5209453, 5247927, 5285402, 5321928,
      5357552, 5392317, 5426264, 5459431, 5491853, 5523561, 5554588, 5584962,
      5614709, 5643856, 5672425, 5700439, 5727920, 5754887, 5781359, 5807354,
      5832890, 5857980, 5882643, 5906890, 5930737, 5954196, 5977279, 6000000,
      6022367, 6044394, 6066089, 6087462, 6108524, 6129283, 6149747, 6169925,
      6189824, 6209453, 6228818, 6247927, 6266786, 6285402, 6303780, 6321928,
      6339850, 6357552, 6375039, 6392317, 6409390, 6426264, 6442943, 6459431,
      6475733, 6491853>>

hasUpper(s) == \E k \in 1..Len(s) : 65 <= s[k] /\ s[k] <= 90
hasLower(s) == \E k \in 1..Len(s) : 97 <= s[k] /\ s[k] <= 122
hasNumber(s) == \E k \in 1..Len(s) : 48 <= s[k] /\ s[k] <= 57
hasSpecial(s) ==
    \E k \in 1..Len(s) :
        /\ ~(65 <= s[k] /\ s[k] <= 90)
        /\ ~(97 <= s[k] /\ s[k] <= 122)
        /\ ~(48 <= s[k] /\ s[k] <= 57)
        /\ s[k] \in Chars(specialChars)

\* The size taken from the classes of the request, not from the string.
charsetSizeRequested(s) == Len(buildCharset(opt))

charsetSize(s) ==
    (IF hasUpper(s) THEN Len(uppercase) ELSE 0)
        + (IF hasLower(s) THEN Len(lowercase) ELSE 0)
        + (IF hasNumber(s) THEN Len(numbers) ELSE 0)
        + (IF hasSpecial(s) THEN Len(specialChars) ELSE 0)

\* The switch with its comparisons exclusive.
strengthOfExclusive(entropy) ==
    IF entropy > 80000000 THEN "Excellent"
    ELSE IF entropy > 60000000 THEN "Strong"
    ELSE IF entropy > 40000000 THEN "Moderate"
    ELSE "Weak"

\* The switch with the case of 60 before the case of 80.
strengthOfMisordered(entropy) ==
    IF entropy >= 60000000 THEN "Strong"
    ELSE IF entropy >= 80000000 THEN "Excellent"
    ELSE IF entropy >= 40000000 THEN "Moderate"
    ELSE "Weak"

strengthOf(entropy) ==
    IF entropy >= 80000000 THEN "Excellent"
    ELSE IF entropy >= 60000000 THEN "Strong"
    ELSE IF entropy >= 40000000 THEN "Moderate"
    ELSE "Weak"

\* PasswordEntropy without its first check.
PasswordEntropyNoEmptyCheck(s) ==
    IF charsetSize(s) = 0
    THEN [entropy |-> 0, strength |-> "", err |-> NoRecognizedCharactersError]
    ELSE LET entropy == Len(s) * Log2Micro[charsetSize(s)]
         IN  [entropy |-> entropy, strength |-> strengthOf(entropy),
              err |-> NoError]

PasswordEntropy(s) ==
    IF Len(s) = 0
    THEN [entropy |-> 0, strength |-> "", err |-> EmptyPasswordError]
    ELSE IF charsetSize(s) = 0
    THEN [entropy |-> 0, strength |-> "", err |-> NoRecognizedCharactersError]
    ELSE LET entropy == Len(s) * Log2Micro[charsetSize(s)]
         IN  [entropy |-> entropy, strength |-> strengthOf(entropy),
              err |-> NoError]

\* --------------------------------------------------------------- shuffle
\* One iteration of the loop of shuffle: r is the draw, already with i added.
\* The exchange written as two assignments: runes[i] = runes[r]; runes[r] = runes[i].
swapOverwrite(runes, k, r) == [runes EXCEPT ![k + 1] = runes[r + 1]]

swap(runes, k, r) == [runes EXCEPT ![k + 1] = runes[r + 1], ![r + 1] = runes[k + 1]]

\* ------------------------------------------------------ GeneratePassword
Lengths == (0 - 1)..MaxRunes
Counts == (0 - 1)..MaxRunes

PasswordOptions ==
    {o \in [Length : Lengths, UseSpecialChars : BOOLEAN,
            UseNumbers : BOOLEAN, UseUpper : BOOLEAN, UseLower : BOOLEAN,
            Count : Counts] : o.Length * o.Count <= MaxRunes}

\* The zero value of GeneratedPassword.
ZeroPassword == [Value |-> <<>>, Strength |-> "", Entropy |-> 0]

NoDraw == [n |-> 0, err |-> NoError]
NotReturned == [passwords |-> <<>>, isNil |-> TRUE, err |-> NoError]

Init ==
    /\ opt \in PasswordOptions
    /\ pc = "validate"
    /\ charsetRunes = <<>>
    /\ passwords = <<>>
    /\ i = 0
    /\ password = <<>>
    /\ position = 0
    /\ j = 0
    /\ si = 0
    /\ lastDraw = NoDraw
    /\ draws = 0
    /\ validations = 0
    /\ built = <<>>
    /\ ret = NotReturned

\* "return passwords, err" in place of "return nil, err".
ReturnErrorPartial(e) ==
    /\ pc' = "done"
    /\ ret' = [passwords |-> passwords, isNil |-> FALSE, err |-> e]

\* return nil, err
ReturnError(e) ==
    /\ pc' = "done"
    /\ ret' = [passwords |-> <<>>, isNil |-> TRUE, err |-> e]

\* The "if err != nil" after a call of secureRandomInt; a panic unwinds
\* GeneratePassword with nothing returned.
DrawFailed(e) ==
    IF e = Panic
    THEN pc' = "panic" /\ UNCHANGED ret
    ELSE ReturnError(e)

\* The loop head with a buffer one rune too long.
LoopHeadLong(ps, idx) ==
    IF idx < Len(ps)
    THEN /\ password' = [k \in 1..(opt.Length + 1) |-> 0]
         /\ position' = 0
         /\ pc' = "upper"
         /\ UNCHANGED ret
    ELSE /\ pc' = "done"
         /\ ret' = [passwords |-> ps, isNil |-> FALSE, err |-> NoError]
         /\ UNCHANGED <<password, position>>

\* The head of "for i := range passwords" with the index idx over the slice
\* ps: the next iteration's buffer, or "return passwords, nil".
LoopHead(ps, idx) ==
    IF idx < Len(ps)
    THEN /\ password' = [k \in 1..opt.Length |-> 0]
         /\ position' = 0
         /\ pc' = "upper"
         /\ UNCHANGED ret
    ELSE /\ pc' = "done"
         /\ ret' = [passwords |-> ps, isNil |-> FALSE, err |-> NoError]
         /\ UNCHANGED <<password, position>>

\* GeneratePassword allocating the first buffer before it validates.
ValidateLate ==
    /\ pc = "validate"
    /\ validations' = validations + 1
    /\ password' = [k \in 1..opt.Length |-> 0]
    /\ position' = 0
    /\ IF validateOptions(opt) # NoError
       THEN /\ ReturnError(validateOptions(opt))
            /\ UNCHANGED <<charsetRunes, passwords>>
       ELSE /\ charsetRunes' = buildCharset(opt)
            /\ passwords' = [k \in 1..opt.Count |-> ZeroPassword]
            /\ pc' = "upper"
            /\ UNCHANGED ret
    /\ UNCHANGED <<opt, i, j, si, lastDraw, draws, built>>

\* Lines 154-164: validation, the charset, the result slice and the first
\* iteration's buffer.
Validate ==
    /\ pc = "validate"
    /\ validations' = validations + 1
    /\ IF validateOptions(opt) # NoError
       THEN /\ ReturnError(validateOptions(opt))
            /\ UNCHANGED <<charsetRunes, passwords, password, position>>
       ELSE /\ charsetRunes' = buildCharset(opt)
            /\ passwords' = [k \in 1..opt.Count |-> ZeroPassword]
            /\ LoopHead([k \in 1..opt.Count |-> ZeroPassword], 0)
    /\ UNCHANGED <<opt, i, j, si, lastDraw, draws, built>>

\* A guaranteed-class block without its "position++".
DrawClassNoAdvance(here, enabled, alphabet, next) ==
    /\ pc = here
    /\ IF enabled
       THEN \E d \in secureRandomInt(Len(alphabet)) :
                /\ lastDraw' = d
                /\ draws' = draws + 1
                /\ IF d.err # NoError
                   THEN /\ DrawFailed(d.err)
                        /\ UNCHANGED <<password, position, j>>
                   ELSE /\ password' = Put(password, position, At(alphabet, d.n))
                        /\ position' = position
                        /\ j' = IF next = "fill" THEN position ELSE j
                        /\ pc' = next
                        /\ UNCHANGED ret
       ELSE /\ pc' = next
            /\ j' = IF next = "fill" THEN position ELSE j
            /\ UNCHANGED <<password, position, lastDraw, draws, ret>>
    /\ UNCHANGED <<opt, charsetRunes, passwords, i, si, validations, built>>

\* One guaranteed-class block (lines 166-197): if the class is enabled, draw
\* an index of its alphabet and write the character at position.
DrawClass(here, enabled, alphabet, next) ==
    /\ pc = here
    /\ IF enabled
       THEN \E d \in secureRandomInt(Len(alphabet)) :
                /\ lastDraw' = d
                /\ draws' = draws + 1
                /\ IF d.err # NoError
                   THEN /\ DrawFailed(d.err)
                        /\ UNCHANGED <<password, position, j>>
                   ELSE /\ password' = Put(password, position, At(alphabet, d.n))
                        /\ position' = position + 1
                        /\ j' = IF next = "fill" THEN position + 1 ELSE j
                        /\ pc' = next
                        /\ UNCHANGED ret
       ELSE /\ pc' = next
            /\ j' = IF next = "fill" THEN position ELSE j
            /\ UNCHANGED <<password, position, lastDraw, draws, ret>>
    /\ UNCHANGED <<opt, charsetRunes, passwords, i, si, validations, built>>

DrawUpper == DrawClass("upper", opt.UseUpper, uppercase, "lower")
DrawLower == DrawClass("lower", opt.UseLower, lowercase, "numbers")
DrawNumbers == DrawClass("numbers", opt.UseNumbers, numbers, "special")
DrawSpecial == DrawClass("special", opt.UseSpecialChars, specialChars, "fill")

\* Lines 199-205: the fill loop, one iteration; on exit shuffle is entered.
Fill ==
    /\ pc = "fill"
    /\ IF j < opt.Length
       THEN \E d \in secureRandomInt(Len(charsetRunes)) :
                /\ lastDraw' = d
                /\ draws' = draws + 1
                /\ IF d.err # NoError
                   THEN /\ DrawFailed(d.err)
                        /\ UNCHANGED <<password, j>>
                   ELSE /\ password' = Put(password, j, At(charsetRunes, d.n))
                        /\ j' = j + 1
                        /\ UNCHANGED <<pc, ret>>
                /\ UNCHANGED <<si, built>>
       ELSE /\ pc' = "shuffle"
            /\ si' = 0
            /\ built' = password
            /\ UNCHANGED <<password, j, lastDraw, draws, ret>>
    /\ UNCHANGED <<opt, charsetRunes, passwords, i, position, validations>>

\* The loop of shuffle drawing from all of [0, N) at every i, with no "r + i".
ShuffleNaive ==
    /\ pc = "shuffle"
    /\ IF si < Len(password) - 1
       THEN \E d \in secureRandomInt(Len(password)) :
                /\ lastDraw' = d
                /\ draws' = draws + 1
                /\ IF d.err # NoError
                   THEN /\ DrawFailed(d.err)
                        /\ UNCHANGED <<password, si>>
                   ELSE /\ password' = swap(password, si, d.n)
                        /\ si' = si + 1
                        /\ UNCHANGED <<pc, ret>>
       ELSE /\ pc' = "analyse"
            /\ UNCHANGED <<password, si, lastDraw, draws, ret>>
    /\ UNCHANGED <<opt, charsetRunes, passwords, i, position, j, validations,
                   built>>

\* Lines 61-72: the loop of shuffle, one iteration (si is shuffle's i).
Shuffle ==
    /\ pc = "shuffle"
    /\ IF si < Len(password) - 1
       THEN \E d \in secureRandomInt(Len(password) - si) :
                /\ lastDraw' = d
                /\ draws' = draws + 1
                /\ IF d.err # NoError
                   THEN /\ DrawFailed(d.err)
                        /\ UNCHANGED <<password, si>>
                   ELSE /\ password' = swap(password, si, d.n + si)
                        /\ si' = si + 1
                        /\ UNCHANGED <<pc, ret>>
       ELSE /\ pc' = "analyse"
            /\ UNCHANGED <<password, si, lastDraw, draws, ret>>
    /\ UNCHANGED <<opt, charsetRunes, passwords, i, position, j, validations,
                   built>>

\* The record appended to the slice made with opt.Count zero records, in
\* place of the assignment passwords[i] = ...
AnalyseAppend ==
    /\ pc = "analyse"
    /\ LET a == PasswordEntropy(password)
           stored == Append(passwords,
                            [Value |-> password, Strength |-> a.strength,
                             Entropy |-> a.entropy])
       IN  IF a.err # NoError
           THEN /\ ReturnError(a.err)
                /\ UNCHANGED <<passwords, i, password, position>>
           ELSE /\ passwords' = stored
                /\ i' = i + 1
                /\ IF i + 1 < opt.Count
                   THEN /\ password' = [k \in 1..opt.Length |-> 0]
                        /\ position' = 0
                        /\ pc' = "upper"
                        /\ UNCHANGED ret
                   ELSE /\ pc' = "done"
                        /\ ret' = [passwords |-> stored, isNil |-> FALSE,
                                   err |-> NoError]
                        /\ UNCHANGED <<password, position>>
    /\ UNCHANGED <<opt, charsetRunes, j, si, lastDraw, draws, validations,
                   built>>

\* Lines 211-224: the analysis of the composed password, its record, and
\* either the next iteration's buffer or the return of the batch.
Analyse ==
    /\ pc = "analyse"
    /\ LET a == PasswordEntropy(password)
           stored == Put(passwords, i,
                         [Value |-> password, Strength |-> a.strength,
                          Entropy |-> a.entropy])
       IN  IF a.err # NoError
           THEN /\ ReturnError(a.err)
                /\ UNCHANGED <<passwords, i, password, position>>
           ELSE /\ passwords' = stored
                /\ i' = i + 1
                /\ LoopHead(stored, i + 1)
    /\ UNCHANGED <<opt, charsetRunes, j, si, lastDraw, draws, validations,
                   built>>

Next ==
    \/ Validate
    \/ DrawUpper
    \/ DrawLower
    \/ DrawNumbers
    \/ DrawSpecial
    \/ Fill
    \/ Shuffle
    \/ Analyse

Spec == Init /\ [][Next]_vars

\* ------------------------------------------- PasswordEntropy on its own
\* PasswordEntropy called on a string supplied from outside (password), the
\* request opt playing no part; its results (entropy, strength, err) are
\* kept in passwords[1] and ret.err.
\* '/', '9', '@', 'A', '`', 'z', e-acute: every class, the runes next to
\* the ranges of the letters and digits, and unrecognised runes.
ProbeRunes == {47, 57, 64, 65, 96, 122, 233}

\* Entropies (micro-bits) on and around the thresholds of the switch.
EntropyProbes ==
    {0, 120000000}
        \cup {t * 1000000 + d : t \in {40, 60, 80}, d \in {0 - 1, 0, 1}}

ProbeRequests ==
    {o \in PasswordOptions :
        /\ o.Length = 1
        /\ o.Count = 1
        /\ o.UseUpper = o.UseLower
        /\ o.UseLower = o.UseNumbers
        /\ o.UseNumbers = o.UseSpecialChars}

InitEntropy ==
    /\ opt \in ProbeRequests
    /\ pc = "input"
    /\ charsetRunes = <<>>
    /\ passwords = <<>>
    /\ i = 0
    /\ password = <<>>
    /\ position = 0
    /\ j = 0
    /\ si = 0
    /\ lastDraw = NoDraw
    /\ draws = 0
    /\ validations = 0
    /\ built = <<>>
    /\ ret = NotReturned

\* One more rune of the string to analyse.
ExtendInput ==
    /\ pc = "input"
    /\ Len(password) < MaxAnalysed
    /\ \E c \in ProbeRunes :
          /\ IF Len(password) < MaxFree
             THEN TRUE
             ELSE c = password[Len(password)]
          /\ password' = Append(password, c)
    /\ UNCHANGED <<opt, pc, charsetRunes, passwords, i, position, j, si,
                   lastDraw, draws, validations, built, ret>>

\* Lines 99-151: the call PasswordEntropy(password).
AnalyseInput ==
    /\ pc = "input"
    /\ LET a == PasswordEntropy(password)
       IN  /\ passwords' = <<[Value |-> password, Strength |-> a.strength,
                              Entropy |-> a.entropy]>>
           /\ ret' = [passwords |-> <<>>, isNil |-> TRUE, err |-> a.err]
    /\ pc' = "analysed"
    /\ UNCHANGED <<opt, charsetRunes, i, password, position, j, si,
                   lastDraw, draws, validations, built>>

\* Lines 138-148: the switch on its own, on a given entropy.
ClassifyEntropy ==
    /\ pc = "input"
    /\ password = <<>>
    /\ \E e \in EntropyProbes :
          passwords' = <<[Value |-> <<>>, Strength |-> strengthOf(e),
                         Entropy |-> e]>>
    /\ pc' = "classified"
    /\ UNCHANGED <<opt, charsetRunes, i, password, position, j, si,
                   lastDraw, draws, validations, built, ret>>

NextEntropy ==
    \/ ExtendInput
    \/ AnalyseInput
    \/ ClassifyEntropy

SpecEntropy == InitEntropy /\ [][NextEntropy]_vars

\* ---------------------------------------------------- shuffle on its own
\* shuffle called on any sequence of up to MaxRunes runes of ShuffleRunes;
\* built keeps the sequence as it was passed.
ShuffleRunes == 65..(64 + MaxRunes)

ShuffleInputs ==
    UNION {[1..n -> ShuffleRunes] : n \in 0..MaxRunes}

InitShuffle ==
    /\ opt \in {o \in ProbeRequests : o.UseUpper}
    /\ pc = "shuffle"
    /\ charsetRunes = <<>>
    /\ passwords = <<>>
    /\ i = 0
    /\ password \in ShuffleInputs
    /\ position = 0
    /\ j = 0
    /\ si = 0
    /\ lastDraw = NoDraw
    /\ draws = 0
    /\ validations = 0
    /\ built = password
    /\ ret = NotReturned

NextShuffle == Shuffle

SpecShuffle == InitShuffle /\ [][NextShuffle]_vars

\* shuffle as a function of its draws: ds[t] is the value secureRandomInt
\* returns at i = k + t - 1.
RECURSIVE shuffleFrom(_, _, _)
shuffleFrom(runes, k, ds) ==
    IF ds = <<>>
    THEN runes
    ELSE shuffleFrom(swap(runes, k, Head(ds) + k), k + 1, Tail(ds))

\* ---------------------------------------------------------------- claims
ClassFlags == {"UseUpper", "UseLower", "UseNumbers", "UseSpecialChars"}
EnabledFlags(o) == {f \in ClassFlags : o[f]}
NumEnabled(o) == Cardinality(EnabledFlags(o))

AlphabetOf(f) ==
    CASE f = "UseUpper" -> 65..90
      [] f = "UseLower" -> 97..122
      [] f = "UseNumbers" -> 48..57
      [] f = "UseSpecialChars" ->
            {33, 64, 35, 36, 37, 94, 38, 42, 40, 41, 45, 95, 61, 43, 91, 93,
             123, 125, 124, 59, 58, 44, 46, 60, 62, 63, 47}

\* GeneratePassword has returned a batch.
Returned == pc = "done" /\ ~ret.isNil
ReturnedValues == {ret.passwords[k].Value : k \in 1..Len(ret.passwords)}
AllFour == NumEnabled(opt) = 4

\* C1: every password of a returned batch holds at least one character of
\* every class whose flag is true in the request.
C1_EveryEnabledClassPresent ==
    Returned =>
        \A v \in ReturnedValues : \A f \in EnabledFlags(opt) :
            Chars(v) \cap AlphabetOf(f) # {}

C1_Witness ==
    /\ Returned
    /\ AllFour
    /\ opt.Length = 4
    /\ opt.Count = 1
    /\ \A v \in ReturnedValues : \A f \in ClassFlags :
           Chars(v) \cap AlphabetOf(f) # {}

\* C2: every password of a returned batch has exactly opt.Length runes, also
\* when Length is the number of enabled classes and the fill loop never runs.
C2_ExactLength ==
    Returned => \A v \in ReturnedValues : Len(v) = opt.Length

C2_Witness ==
    /\ Returned
    /\ opt.Length = NumEnabled(opt)
    /\ NumEnabled(opt) = 2
    /\ opt.Count = 2
    /\ \A v \in ReturnedValues : Len(v) = 2

\* C3: a valid request in which no draw failed returns exactly Count
\* records, each with its value and its strength label.
C3_ExactCount ==
    (pc = "done" /\ validateOptions(opt) = NoError
        /\ lastDraw.err = NoError) =>
        /\ ~ret.isNil
        /\ ret.err = NoError
        /\ Len(ret.passwords) = opt.Count
        /\ \A k \in 1..Len(ret.passwords) :
              /\ ret.passwords[k].Value # <<>>
              /\ ret.passwords[k].Strength
                    \in {"Weak", "Moderate", "Strong", "Excellent"}

C3_Witness ==
    /\ Returned
    /\ opt.Count = 2
    /\ Len(ret.passwords) = 2
    /\ ret.passwords[2].Value # <<>>

\* C4: every character of every returned password belongs to the alphabet
\* of a class enabled in the request.
C4_OnlyEnabledClasses ==
    Returned =>
        \A v \in ReturnedValues : \A k \in 1..Len(v) :
            \E f \in EnabledFlags(opt) : v[k] \in AlphabetOf(f)

C4_Witness ==
    /\ Returned
    /\ EnabledFlags(opt) = {"UseNumbers"}
    /\ opt.Length = 3
    /\ \A v \in ReturnedValues : Chars(v) \subseteq 48..57

\* C5 as stated: with no class enabled the call fails with the
\* no-charset-selected error whatever Length and Count are.
C5_Original ==
    (pc = "done" /\ NumEnabled(opt) = 0) =>
        ret.isNil /\ ret.err = NoCharsetSelectedError

\* C5, amended: with no class enabled the call always fails with a nil
\* result; the error is invalid-length when Length < 0, else invalid-count
\* when Count < 1, and no-charset-selected only when Length >= 0 and
\* Count >= 1.
C5_NoCharsetByPriority ==
    (pc = "done" /\ NumEnabled(opt) = 0) =>
        /\ ret.isNil
        /\ ret.err = IF opt.Length < 0 THEN InvalidLengthError
                     ELSE IF opt.Count < 1 THEN InvalidCountError
                     ELSE NoCharsetSelectedError

C5_Witness ==
    /\ pc = "done"
    /\ NumEnabled(opt) = 0
    /\ opt.Length = 0
    /\ opt.Count = 1
    /\ ret.err = NoCharsetSelectedError

\* C6: a Length below the number of enabled classes fails with the
\* invalid-length error for every Count; a Length equal to that number is
\* not rejected for its length, and is accepted when Count >= 1 and a class
\* is enabled.
C6_LengthTooShort ==
    pc = "done" =>
        /\ opt.Length < NumEnabled(opt) =>
              ret.isNil /\ ret.err = InvalidLengthError
        /\ opt.Length = NumEnabled(opt) => ret.err # InvalidLengthError
        /\ (opt.Length = NumEnabled(opt) /\ opt.Count >= 1
                /\ NumEnabled(opt) >= 1) => ret.err \notin ValidationErrors

C6_Witness ==
    /\ pc = "done"
    /\ AllFour
    /\ opt.Length = 3
    /\ opt.Count = 0
    /\ ret.err = InvalidLengthError

\* C7 as stated: Count < 1 fails with the invalid-count error for every
\* Length and every choice of flags.
C7_Original ==
    (pc = "done" /\ opt.Count < 1) =>
        ret.isNil /\ ret.err = InvalidCountError

\* C7, amended: Count < 1 always fails with a nil result; the error is
\* invalid-count when Length is at least the number of enabled classes
\* (for every choice of flags, none included), and invalid-length otherwise.
C7_InvalidCountAfterLength ==
    (pc = "done" /\ opt.Count < 1) =>
        /\ ret.isNil
        /\ ret.err = IF opt.Length < NumEnabled(opt)
                     THEN InvalidLengthError
                     ELSE InvalidCountError

C7_Witness ==
    /\ pc = "done"
    /\ opt.Count = 0
    /\ AllFour
    /\ opt.Length = 4
    /\ ret.err = InvalidCountError

\* C8: a failed draw ends the call with the error and a nil result, whatever
\* was completed before, and the step of the failed draw writes nothing:
\* the 0 it returns indexes no alphabet and no buffer.
C8_FailedDrawState ==
    lastDraw.err = RandomSourceError =>
        /\ pc = "done"
        /\ ret = [passwords |-> <<>>, isNil |-> TRUE,
                  err |-> RandomSourceError]

C8_FailedDrawStep ==
    lastDraw'.err = RandomSourceError =>
        /\ lastDraw'.n = 0
        /\ password' = password
        /\ passwords' = passwords
        /\ position' = position

C8_FailedDrawAbortsBatch ==
    [](C8_FailedDrawState) /\ [][C8_FailedDrawStep]_vars

C8_Witness ==
    /\ lastDraw.err = RandomSourceError
    /\ pc = "done"
    /\ ret.isNil
    /\ i = 1
    /\ passwords[1].Value # <<>>
    /\ opt.Length = 2
    /\ draws = 6

\* C9: validation happens once and before any draw: a call that ended with
\* a validation error made no draw and allocated neither the result slice
\* nor a buffer.
C9_ValidationFirst ==
    /\ validations = (IF pc = "validate" THEN 0 ELSE 1)
    /\ draws > 0 => validateOptions(opt) = NoError
    /\ (pc = "done" /\ ret.err \in ValidationErrors) =>
          /\ draws = 0
          /\ lastDraw = NoDraw
          /\ password = <<>>
          /\ passwords = <<>>
          /\ charsetRunes = <<>>
          /\ ret.isNil

C9_Witness ==
    /\ pc = "done"
    /\ ret.err = InvalidCountError
    /\ validations = 1
    /\ draws = 0
    /\ opt.Length = 4

\* C10: shuffle permutes: at every step of shuffle and after it the buffer
\* has the multiset of characters of the buffer the guaranteed-class and
\* fill steps built, and so has the value recorded for it.
BagOf(s) == [c \in Chars(s) |-> Cardinality({k \in 1..Len(s) : s[k] = c})]

C10_ShufflePermutes ==
    /\ pc \in {"shuffle", "analyse"} => BagOf(password) = BagOf(built)
    /\ (i >= 1 /\ pc \in {"upper", "done"} /\ lastDraw.err = NoError) =>
          BagOf(passwords[i].Value) = BagOf(built)

C10_Witness ==
    /\ pc = "analyse"
    /\ Len(password) = 4
    /\ password # built
    /\ password[1] = built[4]
    /\ BagOf(password) = BagOf(built)

\* The classes a string has a character of, and the sum of their sizes.
ClassesIn(s) == {f \in ClassFlags : Chars(s) \cap AlphabetOf(f) # {}}
SizeOfClass(f) == Cardinality(AlphabetOf(f))
SizeIf(s, f) == IF f \in ClassesIn(s) THEN SizeOfClass(f) ELSE 0
ObservedSize(s) ==
    SizeIf(s, "UseUpper") + SizeIf(s, "UseLower") + SizeIf(s, "UseNumbers")
        + SizeIf(s, "UseSpecialChars")

\* PasswordEntropy has returned, with no error.
Analysed == pc = "analysed"
AnalysedOk == pc = "analysed" /\ ret.err = NoError

\* C11 as stated: the alphabets have 26, 26, 10 and 28 characters and a
\* password holding all four classes has the entropy length * log2(90).
C11_Original ==
    /\ Len(uppercase) = 26
    /\ Len(lowercase) = 26
    /\ Len(numbers) = 10
    /\ Len(specialChars) = 28
    /\ (Analysed /\ ClassesIn(password) = ClassFlags) =>
          /\ ret.err = NoError
          /\ passwords[1].Entropy = Len(password) * Log2Micro[90]

\* C11, amended: the alphabets have 26, 26, 10 and 27 characters, so a
\* password holding all four classes is analysed with the charset size
\* 26+26+10+27 = 89 and has the entropy length * log2(89).
C11_AlphabetSizes ==
    /\ Len(uppercase) = 26
    /\ Len(lowercase) = 26
    /\ Len(numbers) = 10
    /\ Len(specialChars) = 27
    /\ Cardinality(Chars(specialChars)) = 27
    /\ (Analysed /\ ClassesIn(password) = ClassFlags) =>
          /\ ret.err = NoError
          /\ passwords[1].Entropy = Len(password) * Log2Micro[89]

C11_Witness ==
    /\ Analysed
    /\ ClassesIn(password) = ClassFlags
    /\ Len(password) = 12
    /\ passwords[1].Entropy = 12 * Log2Micro[89]

C13_Thresholds ==
    (AnalysedOk \/ pc = "classified") =>
        LET e == passwords[1].Entropy
            l == passwords[1].Strength
        IN  /\ l \in {"Weak", "Moderate", "Strong", "Excellent"}
            /\ e >= 80000000 <=> l = "Excellent"
            /\ (60000000 <= e /\ e < 80000000) <=> l = "Strong"
            /\ (40000000 <= e /\ e < 60000000) <=> l = "Moderate"
            /\ e < 40000000 <=> l = "Weak"

C13_Witness ==
    /\ pc = "classified"
    /\ passwords[1].Entropy = 80000000
    /\ passwords[1].Strength = "Excellent"

\* C14: PasswordEntropy fails exactly on the empty string (empty-password
\* error) and on a non-empty string with no character of the four classes
\* (no-recognized-characters error); otherwise it returns an entropy and a
\* label with no error.
C14_ErrorCases ==
    Analysed =>
        /\ password = <<>> => ret.err = EmptyPasswordError
        /\ (password # <<>> /\ ClassesIn(password) = {}) =>
              ret.err = NoRecognizedCharactersError
        /\ (password # <<>> /\ ClassesIn(password) # {}) =>
              /\ ret.err = NoError
              /\ passwords[1].Entropy > 0
              /\ passwords[1].Strength
                    \in {"Weak", "Moderate", "Strong", "Excellent"}
        /\ ret.err # NoError =>
              passwords[1].Entropy = 0 /\ passwords[1].Strength = ""

C14_Witness ==
    /\ Analysed
    /\ Len(password) = 3
    /\ Chars(password) = {96, 233}
    /\ ret.err = NoRecognizedCharactersError

\* C15: the entropy is the number of characters times log2 of the sum of
\* the sizes of the classes that occur in the string, each counted once;
\* unrecognised characters count in the length only, and the request
\* plays no part.
C15_ObservedCharset ==
    AnalysedOk =>
        /\ ObservedSize(password) > 0
        /\ passwords[1].Entropy
              = Len(password) * Log2Micro[ObservedSize(password)]

C15_Witness ==
    /\ AnalysedOk
    /\ Len(password) = 4
    /\ ClassesIn(password) = {"UseUpper"}
    /\ 233 \in Chars(password)
    /\ Cardinality({k \in 1..4 : password[k] = 65}) = 2
    /\ passwords[1].Entropy = 4 * Log2Micro[26]
    /\ opt.UseLower

\* C16: inside GeneratePassword the call of PasswordEntropy never fails:
\* the composed password is non-empty and holds a recognised character,
\* and no call ends with an error of the analysis.
C16_AnalysisNeverFails ==
    /\ pc = "analyse" =>
          /\ password # <<>>
          /\ ClassesIn(password) # {}
          /\ PasswordEntropy(password).err = NoError
    /\ ret.err \notin {EmptyPasswordError, NoRecognizedCharactersError}

C16_Witness ==
    /\ pc = "analyse"
    /\ EnabledFlags(opt) = {"UseSpecialChars"}
    /\ Len(password) = 1
    /\ PasswordEntropy(password).err = NoError

\* C17: over N runes shuffle visits i = 0, ..., N-2 in order, draws once at
\* each i with the bound N-i, exchanges the positions i and j = i + draw
\* with i <= j < N and leaves every other position alone; for N <= 1 it
\* draws nothing and changes nothing.  Over distinct runes each of the N!
\* orderings comes from exactly one sequence of draws: the sequences of
\* draws give all the orderings and as many results as there are sequences.
ShuffleSteps(n) == IF n <= 1 THEN 0 ELSE n - 1

\* The sequences of m draws shuffle can get over n runes: the draw at
\* i = t - 1 is below n - i.
RECURSIVE DrawSeqs(_, _)
DrawSeqs(n, m) ==
    IF m = 0
    THEN {<<>>}
    ELSE {Append(ds, d) : ds \in DrawSeqs(n, m - 1), d \in 0..(n - m)}

\* What shuffle makes of s, over all the sequences of draws it can get.
ShuffleResults(s) ==
    {shuffleFrom(s, 0, ds) : ds \in DrawSeqs(Len(s), ShuffleSteps(Len(s)))}

Orderings(s) ==
    {q \in [1..Len(s) -> Chars(s)] : BagOf(q) = BagOf(s)}

Distinct(s) == Cardinality(Chars(s)) = Len(s)

C17_ShuffleState ==
    pc \in {"shuffle", "analyse"} =>
        /\ si \in 0..ShuffleSteps(Len(built))
        /\ pc = "analyse" => si = ShuffleSteps(Len(built))
        /\ draws = si
        /\ Len(built) <= 1 => password = built
        /\ (pc = "analyse" /\ Distinct(built)) =>
              \E ds \in DrawSeqs(Len(built), si) :
                  shuffleFrom(built, 0, ds) = password
        /\ (si = 0 /\ Distinct(built)) =>
              /\ ShuffleResults(built) = Orderings(built)
              /\ Cardinality(ShuffleResults(built))
                    = Cardinality(DrawSeqs(Len(built),
                                           ShuffleSteps(Len(built))))

C17_ShuffleStep ==
    pc = "shuffle" =>
        IF si < Len(password) - 1
        THEN /\ draws' = draws + 1
             /\ lastDraw'.err = NoError =>
                   LET r == si + lastDraw'.n
                   IN  /\ pc' = "shuffle"
                       /\ si' = si + 1
                       /\ si <= r /\ r < Len(password)
                       /\ lastDraw'.n \in 0..(Len(password) - si - 1)
                       /\ Len(password') = Len(password)
                       /\ password'[si + 1] = password[r + 1]
                       /\ password'[r + 1] = password[si + 1]
                       /\ \A k \in 1..Len(password) :
                             k \notin {si + 1, r + 1} =>
                                 password'[k] = password[k]
        ELSE /\ pc' = "analyse"
             /\ draws' = draws
             /\ password' = password

C17_FisherYates == [](C17_ShuffleState) /\ [][C17_ShuffleStep]_vars

C17_Witness ==
    /\ pc = "analyse"
    /\ Len(built) = 4
    /\ Distinct(built)
    /\ \A k \in 1..4 : password[k] = built[5 - k]
    /\ draws = 3

\* C18: on a validated request every call of secureRandomInt has a bound
\* >= 1 (>= 2 in shuffle) and every index read or written is inside its
\* array, so no panic is reachable.
C18_InRange ==
    /\ pc # "panic"
    /\ lastDraw.err # Panic
    /\ (pc = "upper" /\ opt.UseUpper) =>
          position \in 0..(Len(password) - 1) /\ Len(uppercase) >= 1
    /\ (pc = "lower" /\ opt.UseLower) =>
          position \in 0..(Len(password) - 1) /\ Len(lowercase) >= 1
    /\ (pc = "numbers" /\ opt.UseNumbers) =>
          position \in 0..(Len(password) - 1) /\ Len(numbers) >= 1
    /\ (pc = "special" /\ opt.UseSpecialChars) =>
          position \in 0..(Len(password) - 1) /\ Len(specialChars) >= 1
    /\ pc \in {"upper", "lower", "numbers", "special", "fill", "shuffle",
               "analyse"} =>
          /\ Len(password) = opt.Length
          /\ position <= opt.Length
          /\ i \in 0..(Len(passwords) - 1)
    /\ (pc = "fill" /\ j < opt.Length) =>
          j \in 0..(Len(password) - 1) /\ Len(charsetRunes) >= 1
    /\ (pc = "shuffle" /\ si < Len(password) - 1) =>
          si >= 0 /\ Len(password) - si >= 2

\* The index a successful draw is used for.
C18_DrawStep ==
    (draws' = draws + 1 /\ lastDraw'.err = NoError) =>
        /\ pc = "upper" => lastDraw'.n \in 0..(Len(uppercase) - 1)
        /\ pc = "lower" => lastDraw'.n \in 0..(Len(lowercase) - 1)
        /\ pc = "numbers" => lastDraw'.n \in 0..(Len(numbers) - 1)
        /\ pc = "special" => lastDraw'.n \in 0..(Len(specialChars) - 1)
        /\ pc = "fill" => lastDraw'.n \in 0..(Len(charsetRunes) - 1)
        /\ pc = "shuffle" =>
              lastDraw'.n + si \in si..(Len(password) - 1)

C18_NoPanic == [](C18_InRange) /\ [][C18_DrawStep]_vars

C18_Witness ==
    /\ pc = "special"
    /\ AllFour
    /\ opt.Length = 4
    /\ position = 3
    /\ Len(password) = 4

====
